---- MODULE Spec2Model ----
(***************************************************************************)
(* SoundCode: the pattern player of the studio front end.                  *)
(*                                                                         *)
(*   store    the zustand store (useStudioStore)                           *)
(*   editor   the PatternEditor component's local state and its request    *)
(*   engine   the module state of utils/audioEngine.js together with the   *)
(*            Tone.Transport it drives                                     *)
(*   initPc   where the initAudio call made when Studio mounts stands       *)
(*   emitted  the triggerAttackRelease calls of the latest clock callback  *)
(*            or playNote call                                             *)
(*   reported the console.error reports of the latest clock callback or    *)
(*            playNote call                                                *)
(*   last     the latest operation and the transport it started from       *)
(*   backend  the /api/parse endpoint: the request it was sent and its     *)
(*            response                                                     *)
(*                                                                         *)
(* Time is counted in eighth notes (half beats): one transport tick of the *)
(* model is half a beat, and the times of the documents below are written  *)
(* in halves (the DSL time 0.5 is 1).                                      *)
(***************************************************************************)
EXTENDS Integers, Sequences, FiniteSets, TLC

VARIABLES store, editor, engine, initPc, emitted, reported, last, backend

vars == <<store, editor, engine, initPc, emitted, reported, last, backend>>

(***************************************************************************)
(* Bounds and program constants                                            *)
(***************************************************************************)
\* cap on the transport position while Tone.Transport.loop is still false
MaxTicks == 35

\* Tone.Transport.loopEnd = '4m': four 4/4 measures, in beats
TransportLoopEndBeats == 16

\* patternParts[type].loopEnd = 16: a bare number is a Tone Time in seconds
PartLoopEndSeconds == 16

\* Tone.Transport.bpm.value = 120, and the store's initial bpm
InitialBpm == 120

\* the tempi the BPM input is set to in the model (the input allows 40..240)
Bpms == {60, 120}

(***************************************************************************)
(* Values                                                                  *)
(***************************************************************************)
\* JavaScript null, for a pattern or an error message
NULL == [null |-> TRUE]

\* an Error carrying a message
Err(msg) == [message |-> msg]

\* a number held in the store, in tenths of a beat
Num(n) == [kind |-> "number", value |-> n]

\* the updater closure that the position interval hands to setCurrentTime
UpdaterFn == [kind |-> "function", value |-> 0]

\* a NoteEvent whose default velocity is 0.8
NoteEventSoft(i, n, t) ==
    [instrument |-> i, note |-> n, time |-> t, velocity |-> 8, duration |-> 1]

\* a NoteEvent as the backend serialises it: velocity 1.0 and duration 0.5
\* are the schema defaults (velocity in tenths, time and duration in halves)
NoteEvent(i, n, t) ==
    [instrument |-> i, note |-> n, time |-> t, velocity |-> 10, duration |-> 1]

Track(type, notes) == [type |-> type, notes |-> notes]

\* the editor's DEFAULT_PATTERN, as compiled
DocDefault ==
    [patterns |-> << Track("melody", << NoteEvent("piano", "C4", 0),
                                        NoteEvent("piano", "E4", 1),
                                        NoteEvent("piano", "G4", 2) >>),
                     Track("rhythm", << NoteEvent("synth", "Kick", 0),
                                        NoteEvent("synth", "Snare", 1),
                                        NoteEvent("synth", "Kick", 2) >>) >>]

\* a document with an instrument that no import or engine knows, an
\* instrument named like an inherited property of every object, events
\* that share a time, and an event late in the loop
DocOdd ==
    [patterns |-> << Track("melody", << NoteEvent("drums", "A2", 0),
                                        NoteEvent("guitar", "E2", 0),
                                        NoteEvent("piano", "B3", 0),
                                        NoteEvent("constructor", "D3", 1),
                                        NoteEvent("guitar", "D3", 1),
                                        NoteEvent("guitar", "A2", 20) >>) >>]

\* a document whose only block has no statement
DocEmpty == [patterns |-> << Track("harmony", << >>) >>]

Docs == {DocDefault, DocOdd, DocEmpty}

\* a document with a note of velocity 0 and duration 0, which the NoteEvent
\* schema allows and the backend's statement grammar cannot write
DocSilent ==
    [patterns |-> << Track("melody",
                           << [NoteEvent("piano", "D4", 0) EXCEPT
                                 !.velocity = 0, !.duration = 0],
                              NoteEvent("piano", "F4", 1) >>) >>]

\* the documents handed to playPattern when the engine is called directly
EngineDocs == Docs \cup {DocSilent}

(***************************************************************************)
(* Tone.Transport, as audioEngine.js uses it                               *)
(***************************************************************************)
\* a bare number handed to Tone as a time is read as seconds and turned
\* into transport ticks with the tempo of that moment (here: halves of a
\* second into half beats)
ToTicks(halfSeconds, bpm) == (halfSeconds * bpm) \div 60

\* Tone.Transport.stop(): the clock stops and its position returns to 0
TransportStop(t) == [t EXCEPT !.state = "stopped", !.ticks = 0]

\* Tone.Transport.position = 0
TransportSetPosition(t, p) == [t EXCEPT !.ticks = p]

\* a pause that acts on a clock in any state
TransportPauseAny(t) == [t EXCEPT !.state = "paused"]

\* Tone.Transport.pause(): only a started clock is paused; position is kept
TransportPause(t) ==
    IF t.state = "started" THEN [t EXCEPT !.state = "paused"] ELSE t

\* Tone.Transport.start(): the clock runs on from its current position
TransportStart(t) == [t EXCEPT !.state = "started"]

\* a part that rewrites the time of the notes it is given to ticks
NewPartRetimes(track, bpm) ==
    [type    |-> track.type,
     events  |-> [i \in 1..Len(track.notes) |->
                    [offset |-> ToTicks(track.notes[i].time, bpm),
                     value  |-> [track.notes[i] EXCEPT
                                   !.time = ToTicks(@, bpm)]]],
     loop    |-> TRUE,
     loopEnd |-> ToTicks(2 * PartLoopEndSeconds, bpm)]

\* new Tone.Part(callback, notes.map(note => [note.time, note])), then
\* start(0), loop = true, loopEnd = 16
NewPart(track, bpm) ==
    [type    |-> track.type,
     events  |-> [i \in 1..Len(track.notes) |->
                    [offset |-> ToTicks(track.notes[i].time, bpm),
                     value  |-> track.notes[i]]],
     loop    |-> TRUE,
     loopEnd |-> ToTicks(2 * PartLoopEndSeconds, bpm)]

\* a dispose that leaves the parts on the transport timeline
DisposeNone(timeline, parts) == timeline

\* part.dispose() of every part in parts: they leave the transport timeline
DisposeAll(timeline, parts) ==
    SelectSeq(timeline, LAMBDA p : \A i \in 1..Len(parts) : parts[i] # p)

(***************************************************************************)
(* utils/audioEngine.js                                                    *)
(***************************************************************************)
InstrumentNames == {"piano", "synth", "guitar"}

EqBands == {"low", "mid", "high"}

\* names that every object literal answers to through Object.prototype
ObjectPrototypeKeys == {"constructor", "toString", "valueOf", "hasOwnProperty"}

\* the module state when the file is loaded; Tone.Transport starts stopped
\* at 120 bpm, not looping, with loopEnd at '4m'
EngineInit ==
    [instruments    |-> [n \in InstrumentNames |-> "null"],
     eq             |-> [b \in EqBands |-> "null"],
     currentPattern |-> NULL,
     patternParts   |-> << >>,
     timeline       |-> << >>,
     transport      |-> [state |-> "stopped", ticks |-> 0, bpm |-> InitialBpm,
                         loop |-> FALSE,
                         loopEnd |-> 2 * TransportLoopEndBeats]]

\* the part of initAudio after `await Tone.start()`
initAudio(e) ==
    [e EXCEPT !.eq = [b \in EqBands |-> "EQ3"],
              !.instruments = [n \in InstrumentNames |-> "Sampler"],
              !.transport.bpm = InitialBpm,
              !.transport.loop = TRUE,
              !.transport.loopEnd = 2 * TransportLoopEndBeats]

\* stopPattern that disposes the parts and leaves the transport running
stopPatternKeepsRunning(e) ==
    [e EXCEPT !.timeline = DisposeAll(e.timeline, e.patternParts),
              !.patternParts = << >>,
              !.currentPattern = NULL]

\* stopPattern that pauses the transport and never rewinds it
stopPatternPauses(e) ==
    [e EXCEPT !.transport = TransportPause(e.transport),
              !.timeline = DisposeAll(e.timeline, e.patternParts),
              !.patternParts = << >>,
              !.currentPattern = NULL]

\* a stopPattern that keeps the reference to the pattern
stopPatternKeepsPattern(e) ==
    [e EXCEPT !.transport = TransportSetPosition(TransportStop(e.transport), 0),
              !.timeline = DisposeAll(e.timeline, e.patternParts),
              !.patternParts = << >>]

stopPattern(e) ==
    [e EXCEPT !.transport = TransportSetPosition(TransportStop(e.transport), 0),
              !.timeline = DisposeAll(e.timeline, e.patternParts),
              !.patternParts = << >>,
              !.currentPattern = NULL]

\* a playPattern that throws after its stopPattern(): the catch logs the
\* error and the transport stays stopped
playPatternFails(e, pattern) == stopPattern(e)

playPattern(e, pattern) ==
    LET s == stopPattern(e)
        parts == [i \in 1..Len(pattern.patterns) |->
                     NewPart(pattern.patterns[i], s.transport.bpm)]
    IN  [s EXCEPT !.currentPattern = pattern,
                  !.patternParts = parts,
                  !.timeline = s.timeline \o parts,
                  !.transport = TransportStart(s.transport)]

\* pausePattern that stops the transport instead of pausing it
pausePatternStops(e) == [e EXCEPT !.transport = TransportStop(e.transport)]

pausePattern(e) == [e EXCEPT !.transport = TransportPause(e.transport)]

\* setBpm that rewinds the transport
setBpmRewinds(e, bpm) == [e EXCEPT !.transport.bpm = bpm, !.transport.ticks = 0]

setBpm(e, bpm) == [e EXCEPT !.transport.bpm = bpm]

\* instruments[name] for any string: an own slot, an inherited property,
\* or undefined
Lookup(instruments, name) ==
    IF name \in DOMAIN instruments THEN instruments[name]
    ELSE IF name \in ObjectPrototypeKeys THEN "inherited"
    ELSE "undefined"

Falsy(v) == v \in {"null", "undefined"}

\* the arguments of instruments[...].triggerAttackRelease(note.note,
\* note.duration || "8n", time, note.velocity || 1); "8n" is one half beat
Trigger(note, tick) ==
    [instrument |-> note.instrument,
     note       |-> note.note,
     duration   |-> IF note.duration = 0 THEN 1 ELSE note.duration,
     tick       |-> tick,
     velocity   |-> IF note.velocity = 0 THEN 10 ELSE note.velocity]

\* the Tone.Part callbacks of the events in due (each [tick, value]), run in
\* order: a missing instrument is reported and skipped; calling
\* triggerAttackRelease on something that is not a sampler throws out of the
\* clock callback, and the rest of the callback's events are lost
RECURSIVE RunCallbacks(_, _, _)
RunCallbacks(due, instruments, out) ==
    IF due = << >> THEN out
    ELSE LET d == Head(due)
             v == Lookup(instruments, d.value.instrument)
         IN  IF Falsy(v)
             THEN RunCallbacks(Tail(due), instruments,
                     [out EXCEPT !.reported = Append(@, d.value.instrument)])
             ELSE IF v = "Sampler"
             THEN RunCallbacks(Tail(due), instruments,
                     [out EXCEPT !.emitted = Append(@, Trigger(d.value, d.tick))])
             ELSE [out EXCEPT !.threw = TRUE]

(***************************************************************************)
(* The transport clock                                                     *)
(***************************************************************************)
\* a wrap that lets the position reach loopEnd itself
NormaliseLate(t, p) == IF t.loop /\ p > t.loopEnd THEN 0 ELSE p

\* with Transport.loop set, a tick at or past loopEnd is replaced by
\* loopStart (0)
Normalise(t, p) == IF t.loop /\ p >= t.loopEnd THEN 0 ELSE p

\* the n tick positions the clock visits starting at p
RECURSIVE Visit(_, _, _)
Visit(t, p, n) ==
    IF n = 0 THEN << >>
    ELSE << Normalise(t, p) >> \o Visit(t, Normalise(t, p) + 1, n - 1)

\* a looping part started at 0 plays the events inside [0, loopEnd) once per
\* loopEnd ticks
Fires(part, ev, p) ==
    IF part.loop
    THEN /\ ev.offset < part.loopEnd
         /\ p >= ev.offset
         /\ (p - ev.offset) % part.loopEnd = 0
    ELSE p = ev.offset

\* the due events of a part, latest stored first
PartDueReversed(part, p) ==
    LET hit == SelectSeq(part.events, LAMBDA ev : Fires(part, ev, p))
    IN  [i \in 1..Len(hit) |-> [tick |-> p, value |-> hit[Len(hit) + 1 - i].value]]

\* the events of a part due at tick p, in the order the part stores them:
\* the transport timeline keeps events of equal time in insertion order
PartDue(part, p) ==
    LET hit == SelectSeq(part.events, LAMBDA ev : Fires(part, ev, p))
    IN  [i \in 1..Len(hit) |-> [tick |-> p, value |-> hit[i].value]]

\* the events of the timeline due at tick p: part after part, each part's
\* events in their stored order
RECURSIVE DueAt(_, _)
DueAt(timeline, p) ==
    IF timeline = << >> THEN << >>
    ELSE PartDue(Head(timeline), p) \o DueAt(Tail(timeline), p)

RECURSIVE DueOver(_, _)
DueOver(timeline, positions) ==
    IF positions = << >> THEN << >>
    ELSE DueAt(timeline, Head(positions)) \o DueOver(timeline, Tail(positions))

\* ticks that pass in one clock callback: half a second of audio time
TicksPerCallback(t) == t.bpm \div 60

\* the ticks of one clock callback, and the position it leaves
ClockPositions(t) == Visit(t, t.ticks, TicksPerCallback(t))

ClockAdvance(t) ==
    LET ps == ClockPositions(t)
    IN  [t EXCEPT !.ticks = Normalise(t, ps[Len(ps)] + 1)]

NoOutput == [emitted |-> << >>, reported |-> << >>, threw |-> FALSE]

\* the operation of a step, with the transport state and position it found
\* and the operation before it
Op(name) ==
    [op |-> name, from |-> engine.transport.state,
     ticks |-> engine.transport.ticks, threw |-> FALSE, prev |-> last.op]

\* Tone's clock callback: it runs whatever the transport state, and while
\* the transport is started it visits the ticks that have passed
ClockLoop ==
    /\ engine.transport.state = "started" =>
          engine.transport.loop \/ engine.transport.ticks < MaxTicks
    /\ LET t   == engine.transport
           out == IF t.state = "started"
                  THEN RunCallbacks(DueOver(engine.timeline, ClockPositions(t)),
                                    engine.instruments, NoOutput)
                  ELSE NoOutput
       IN  /\ engine' = IF t.state = "started"
                        THEN [engine EXCEPT !.transport = ClockAdvance(t)]
                        ELSE engine
           /\ emitted' = out.emitted
           /\ reported' = out.reported
           /\ last' = [Op("clock") EXCEPT !.threw = out.threw]
    /\ UNCHANGED <<store, editor, initPc, backend>>

(***************************************************************************)
(* audioEngine.js called directly: playNote, cleanupAudio and the          *)
(* exported transport functions                                            *)
(***************************************************************************)
\* cleanupAudio: stopPattern(), dispose what is there, null every slot
cleanupAudio(e) ==
    [stopPattern(e) EXCEPT !.instruments = [n \in InstrumentNames |-> "null"],
                           !.eq = [b \in EqBands |-> "null"]]

\* playNote(instrumentName, note): a falsy slot is reported; otherwise
\* triggerAttackRelease(note, "8n") is called inside try/catch, so a slot
\* that is no sampler is reported too and nothing is thrown
playNote(e, instrumentName, note) ==
    IF Falsy(Lookup(e.instruments, instrumentName))
    THEN [NoOutput EXCEPT !.reported = << instrumentName >>]
    ELSE IF Lookup(e.instruments, instrumentName) = "Sampler"
    THEN [NoOutput EXCEPT !.emitted =
             << Trigger(NoteEvent(instrumentName, note, 0), e.transport.ticks) >>]
    ELSE [NoOutput EXCEPT !.reported = << instrumentName >>]

\* the names the keyboard's selected instrument is given in the model
PlayNoteNames == {"piano", "drums", "constructor"}

CallPlayNote ==
    /\ \E name \in PlayNoteNames :
          LET out == playNote(engine, name, "C4")
          IN  /\ emitted' = out.emitted
              /\ reported' = out.reported
              /\ last' = [Op("playNote") EXCEPT !.threw = out.threw]
    /\ UNCHANGED <<store, editor, engine, initPc, backend>>

CallPlayPattern ==
    /\ \E pattern \in EngineDocs : engine' = playPattern(engine, pattern)
    /\ last' = Op("playPattern")
    /\ UNCHANGED <<store, editor, initPc, emitted, reported, backend>>

CallStopPattern ==
    /\ engine' = stopPattern(engine)
    /\ last' = Op("stopPattern")
    /\ UNCHANGED <<store, editor, initPc, emitted, reported, backend>>

CallPausePattern ==
    /\ engine' = pausePattern(engine)
    /\ last' = Op("pausePattern")
    /\ UNCHANGED <<store, editor, initPc, emitted, reported, backend>>

CallSetBpm ==
    /\ \E b \in Bpms : engine' = setBpm(engine, b)
    /\ last' = Op("setBpm")
    /\ UNCHANGED <<store, editor, initPc, emitted, reported, backend>>

CallCleanupAudio ==
    /\ engine' = cleanupAudio(engine)
    /\ last' = Op("cleanupAudio")
    /\ UNCHANGED <<store, editor, initPc, emitted, reported, backend>>

(***************************************************************************)
(* store/useStudioStore.js                                                 *)
(***************************************************************************)
StoreInit ==
    [parsedPattern |-> NULL, isPlaying |-> FALSE,
     currentTime |-> Num(0), bpm |-> InitialBpm]

\* setParsedPattern that also raises the playing flag
setParsedPatternPlays(s, pattern) ==
    [s EXCEPT !.parsedPattern = pattern, !.isPlaying = TRUE]

setParsedPattern(s, pattern) == [s EXCEPT !.parsedPattern = pattern]

setIsPlaying(s, isPlaying) == [s EXCEPT !.isPlaying = isPlaying]

\* set({ currentTime: time }): whatever is passed is stored, a number or a
\* function alike
setCurrentTime(s, time) == [s EXCEPT !.currentTime = time]

setStoreBpm(s, bpm) == [s EXCEPT !.bpm = bpm]

(***************************************************************************)
(* components/Transport.jsx                                                *)
(***************************************************************************)
\* the callback of the 100 ms interval that runs while isPlaying
IntervalTick ==
    /\ store.isPlaying
    /\ store' = setCurrentTime(store, UpdaterFn)
    /\ last' = Op("interval")
    /\ UNCHANGED <<editor, engine, initPc, emitted, reported, backend>>

handlePlay ==
    /\ IF store.parsedPattern # NULL
       THEN /\ engine' = playPattern(engine, store.parsedPattern)
            /\ store' = setIsPlaying(store, TRUE)
       ELSE UNCHANGED <<engine, store>>
    /\ last' = Op("handlePlay")
    /\ UNCHANGED <<editor, initPc, emitted, reported, backend>>

handleStop ==
    /\ engine' = stopPattern(engine)
    /\ store' = setCurrentTime(setIsPlaying(store, FALSE), Num(0))
    /\ last' = Op("handleStop")
    /\ UNCHANGED <<editor, initPc, emitted, reported, backend>>

handlePause ==
    /\ engine' = pausePattern(engine)
    /\ store' = setIsPlaying(store, FALSE)
    /\ last' = Op("handlePause")
    /\ UNCHANGED <<editor, initPc, emitted, reported, backend>>

handleBpmChange(newBpm) ==
    /\ store' = setStoreBpm(store, newBpm)
    /\ engine' = setBpm(engine, newBpm)
    /\ last' = Op("handleBpmChange")
    /\ UNCHANGED <<editor, initPc, emitted, reported, backend>>

\* the disabled attributes of the three transport buttons
PlayDisabled == store.parsedPattern = NULL \/ store.isPlaying

PauseDisabled == ~store.isPlaying

StopDisabled == ~store.isPlaying /\ store.currentTime = Num(0)

PlayClick == ~PlayDisabled /\ handlePlay

PauseClick == ~PauseDisabled /\ handlePause

StopClick == ~StopDisabled /\ handleStop

BpmInput == \E b \in Bpms : handleBpmChange(b)

(***************************************************************************)
(* PatternEditor: handleParsePattern and the request it awaits              *)
(***************************************************************************)
EditorInit == [isLoading |-> FALSE, error |-> NULL, inflight |-> 0]

\* handleParsePattern up to its await; the button is disabled while loading
ParseClick ==
    /\ ~editor.isLoading
    /\ editor' = [editor EXCEPT !.error = NULL, !.isLoading = TRUE,
                                !.inflight = @ + 1]
    /\ last' = Op("parseClick")
    /\ UNCHANGED <<store, engine, initPc, emitted, reported, backend>>

\* parsePattern resolved with data.pattern
ParseResolve(pattern) ==
    /\ editor.inflight > 0
    /\ store' = setParsedPattern(store, pattern)
    /\ editor' = [editor EXCEPT !.isLoading = FALSE, !.inflight = @ - 1]
    /\ last' = Op("load")
    /\ UNCHANGED <<engine, initPc, emitted, reported, backend>>

\* a failed parse that also forgets the stored pattern
ParseRejectClearsPattern ==
    /\ editor.inflight > 0
    /\ store' = setParsedPattern(store, NULL)
    /\ editor' = [editor EXCEPT !.error = Err("Failed to parse pattern"),
                                !.isLoading = FALSE, !.inflight = @ - 1]
    /\ last' = Op("parseError")
    /\ UNCHANGED <<engine, initPc, emitted, reported, backend>>

\* parsePattern threw: data.success was false, or the request failed
ParseReject ==
    /\ editor.inflight > 0
    /\ editor' = [editor EXCEPT !.error = Err("Failed to parse pattern"),
                                !.isLoading = FALSE, !.inflight = @ - 1]
    /\ last' = Op("parseError")
    /\ UNCHANGED <<store, engine, initPc, emitted, reported, backend>>

Load == \E d \in Docs : ParseResolve(d)

(***************************************************************************)
(* components/Studio.jsx: initAudio is called once, on mount                *)
(***************************************************************************)
InitAudioDone ==
    /\ initPc = "awaiting"
    /\ engine' = initAudio(engine)
    /\ initPc' = "done"
    /\ last' = Op("initAudio")
    /\ UNCHANGED <<store, editor, emitted, reported, backend>>

(***************************************************************************)
(* The backend: pattern_grammar, PatternTransformer, the response models   *)
(* and the /api/parse endpoint                                             *)
(*                                                                         *)
(* A program is the sequence of its top-level items as they stand in the   *)
(* text, an import statement or a block; a block holds its statements in   *)
(* source order, and a statement's time is the literal as written: sign,   *)
(* integer part and fraction digits.                                       *)
(***************************************************************************)
\* most top-level items of a program
MaxItems == 2

\* most statements of a block
MaxStatements == 2

\* BLOCK_TYPE: "melody" | "rhythm" | "harmony" | "contrast"
BLOCK_TYPE == {"melody", "rhythm", "harmony", "contrast"}

TimeLiteral(sign, whole, frac) == [sign |-> sign, whole |-> whole, frac |-> frac]

Statement(i, n, lit) == [instrument |-> i, note |-> n, time |-> lit]

ImportItem(i, m) == [rule |-> "import_statement", instrument |-> i, module |-> m]

BlockItem(type, statements) ==
    [rule |-> "pattern_block", block_type |-> type, statements |-> statements]

\* the time literals of the programs: 0, 0.5 and -1
TimeLiterals ==
    {TimeLiteral("", 0, ""), TimeLiteral("", 0, "5"), TimeLiteral("-", 1, "")}

SeqsUpTo(S, n) == UNION { [1..k -> S] : k \in 0..n }

ProgramStatements == { Statement("piano", "C4", lit) : lit \in TimeLiterals }

ProgramItems ==
    {ImportItem("piano", "\"pianoset\"")} \cup
    { BlockItem(type, sts) : type \in {"melody", "rhythm"},
                             sts \in SeqsUpTo(ProgramStatements, MaxStatements) }

\* the editor's DEFAULT_PATTERN
DefaultProgram ==
    << ImportItem("piano", "\"pianoset\""),
       ImportItem("synth", "\"synthset\""),
       BlockItem("melody",
                 << Statement("piano", "C4", TimeLiteral("", 0, "")),
                    Statement("piano", "E4", TimeLiteral("", 0, "5")),
                    Statement("piano", "G4", TimeLiteral("", 1, "0")) >>),
       BlockItem("rhythm",
                 << Statement("synth", "Kick", TimeLiteral("", 0, "")),
                    Statement("synth", "Snare", TimeLiteral("", 0, "5")),
                    Statement("synth", "Kick", TimeLiteral("", 1, "0")) >>) >>

\* a chord and a later note: two statements share a time
ChordProgram ==
    << BlockItem("harmony",
                 << Statement("piano", "E4", TimeLiteral("", 0, "")),
                    Statement("piano", "C4", TimeLiteral("", 0, "")),
                    Statement("guitar", "E2", TimeLiteral("", 0, "5")) >>) >>

\* the programs sent to the endpoint
Programs == SeqsUpTo(ProgramItems, MaxItems) \cup {DefaultProgram, ChordProgram}

\* a time terminal that also takes a sign
TIMESTAMPSigned(lit) == TRUE

\* TIMESTAMP: /[0-9]+(\.[0-9]+)?/ has no sign, and no other terminal of the
\* grammar matches "-"
TIMESTAMP(lit) == lit.sign = ""

\* float(items[2]), in halves of a beat: "1" and "1.0" are the same number
Float(lit) ==
    LET halves == 2 * lit.whole + (IF lit.frac = "5" THEN 1 ELSE 0)
    IN  IF lit.sign = "-" THEN 0 - halves ELSE halves

\* statement: INSTRUMENT NOTE TIMESTAMP ";"
StatementParses(st) == TIMESTAMP(st.time)

\* pattern_block: BLOCK_TYPE "{" statement* "}"
BlockParses(item) ==
    /\ item.rule = "pattern_block"
    /\ item.block_type \in BLOCK_TYPE
    /\ \A j \in DOMAIN item.statements : StatementParses(item.statements[j])

\* what is left of the items after import_statement*
RECURSIVE AfterImports(_)
AfterImports(items) ==
    IF items # << >> /\ Head(items).rule = "import_statement"
    THEN AfterImports(Tail(items))
    ELSE items

\* a start rule that takes any number of blocks, none included
startAnyBlocks(items) ==
    \A k \in DOMAIN AfterImports(items) : BlockParses(AfterImports(items)[k])

\* start: import_statement* pattern_block+
startRule(items) ==
    /\ AfterImports(items) # << >>
    /\ \A k \in DOMAIN AfterImports(items) : BlockParses(AfterImports(items)[k])

\* the exception of pattern_parser.parse on a text outside the grammar: the
\* text ended where a block had to come, or a character fits no terminal
ParseError(items) ==
    IF \A k \in DOMAIN AfterImports(items) : BlockParses(AfterImports(items)[k])
    THEN Err("UnexpectedEOF")
    ELSE Err("UnexpectedCharacters")

\* a statement that takes the note from the instrument token
statementNoteFromInstrument(st) ==
    [instrument |-> st.instrument, note |-> st.instrument, time |-> Float(st.time)]

\* PatternTransformer.statement: instrument, note and float(time); it sets
\* neither velocity nor duration
statement(st) ==
    [instrument |-> st.instrument, note |-> st.note, time |-> Float(st.time)]

\* a pattern_block that hands its statements over last first
pattern_blockReversed(item) ==
    [block_type |-> item.block_type,
     statements |-> [j \in DOMAIN item.statements |->
                       statement(item.statements[Len(item.statements) + 1 - j])]]

\* PatternTransformer.pattern_block: the statements in source order
pattern_block(item) ==
    [block_type |-> item.block_type,
     statements |-> [j \in DOMAIN item.statements |->
                       statement(item.statements[j])]]

\* PatternTransformer.import_statement
import_statement(item) == [instrument |-> item.instrument, module |-> item.module]

\* d[key] = value on a Python dict, kept as its entries in insertion order:
\* a key already present keeps its place and gets the new value
DictSet(d, key, value) ==
    IF \E i \in DOMAIN d : d[i].key = key
    THEN [i \in DOMAIN d |-> IF d[i].key = key
                             THEN [key |-> key, value |-> value] ELSE d[i]]
    ELSE Append(d, [key |-> key, value |-> value])

\* PatternTransformer.start: the loop over the items
RECURSIVE start(_, _)
start(items, result) ==
    IF items = << >> THEN result
    ELSE LET item == Head(items)
         IN  IF item.rule = "import_statement"
             THEN start(Tail(items),
                        [result EXCEPT !.imports = Append(@, import_statement(item))])
             ELSE start(Tail(items),
                        [result EXCEPT !.patterns =
                            DictSet(@, pattern_block(item).block_type,
                                       pattern_block(item).statements)])

\* the response_model: Pattern, with every note a NoteEvent whose velocity
\* and duration come from the schema defaults
Pattern(data) ==
    [imports  |-> data.imports,
     patterns |-> [k \in DOMAIN data.patterns |->
                     Track(data.patterns[k].key,
                           [j \in DOMAIN data.patterns[k].value |->
                              NoteEvent(data.patterns[k].value[j].instrument,
                                        data.patterns[k].value[j].note,
                                        data.patterns[k].value[j].time)])]]

ParseResponse(success, pattern, error) ==
    [success |-> success, pattern |-> pattern, error |-> error]

\* the body of the endpoint: parse, transform, and the except branch
parse_pattern(pattern_code) ==
    IF startRule(pattern_code)
    THEN ParseResponse(TRUE,
                       Pattern(start(pattern_code,
                                     [imports |-> << >>, patterns |-> << >>])),
                       NULL)
    ELSE ParseResponse(FALSE, NULL, ParseError(pattern_code))

\* what a call of the client's parsePattern came to: a returned value or a
\* thrown Error
Outcome(threw, value, error) == [threw |-> threw, value |-> value, error |-> error]

\* a parsePattern that returns data.pattern whatever data.success says
parsePatternUnchecked(data) == Outcome(FALSE, data.pattern, NULL)

\* apiClient.js parsePattern after `await response.json()`: it throws
\* Error(data.error || 'Failed to parse pattern') unless data.success, and
\* returns data.pattern otherwise
parsePattern(data) ==
    IF ~data.success
    THEN Outcome(TRUE, NULL,
                 IF data.error = NULL THEN Err("Failed to parse pattern")
                 ELSE data.error)
    ELSE Outcome(FALSE, data.pattern, NULL)

BackendInit ==
    [pc |-> "idle", request |-> << >>,
     response |-> ParseResponse(FALSE, NULL, NULL),
     client |-> Outcome(FALSE, NULL, NULL)]

\* POST /api/parse arrives with a program as pattern_code
PostParse ==
    /\ backend.pc = "idle"
    /\ \E program \in Programs :
          backend' = [backend EXCEPT !.pc = "received", !.request = program]
    /\ UNCHANGED <<store, editor, engine, initPc, emitted, reported, last>>

\* the endpoint answers
ParseEndpoint ==
    /\ backend.pc = "received"
    /\ backend' = [backend EXCEPT !.pc = "answered",
                                  !.response = parse_pattern(backend.request)]
    /\ UNCHANGED <<store, editor, engine, initPc, emitted, reported, last>>

\* the client gets the response and parsePattern returns or throws
ParsePatternSettles ==
    /\ backend.pc = "answered"
    /\ backend' = [backend EXCEPT !.pc = "settled",
                                  !.client = parsePattern(backend.response)]
    /\ UNCHANGED <<store, editor, engine, initPc, emitted, reported, last>>

\* fetch rejects, no response arrives: parsePattern rethrows the error
FetchFails ==
    /\ backend.pc = "received"
    /\ backend' = [backend EXCEPT !.pc = "failed",
                                  !.client = Outcome(TRUE, NULL, Err("Failed to fetch"))]
    /\ UNCHANGED <<store, editor, engine, initPc, emitted, reported, last>>

(***************************************************************************)
(* Specifications                                                          *)
(***************************************************************************)
Init ==
    /\ store = StoreInit
    /\ editor = EditorInit
    /\ engine = EngineInit
    /\ initPc = "awaiting"
    /\ emitted = << >>
    /\ reported = << >>
    /\ last = [op |-> "init", from |-> "stopped", ticks |-> 0, threw |-> FALSE,
               prev |-> "init"]
    /\ backend = BackendInit

\* the page as the user drives it
Next ==
    \/ PlayClick
    \/ PauseClick
    \/ StopClick
    \/ BpmInput
    \/ ParseClick
    \/ Load
    \/ ParseReject
    \/ IntervalTick
    \/ ClockLoop
    \/ InitAudioDone

Spec == Init /\ [][Next]_vars

\* the handlers called in any state, whatever the buttons allow
NextAPI ==
    \/ handlePlay
    \/ handlePause
    \/ handleStop
    \/ BpmInput
    \/ ParseClick
    \/ Load
    \/ ParseReject
    \/ IntervalTick
    \/ ClockLoop
    \/ InitAudioDone

SpecAPI == Init /\ [][NextAPI]_vars

\* the functions audioEngine.js exports, called in any order
NextEngine ==
    \/ CallPlayPattern
    \/ CallStopPattern
    \/ CallPausePattern
    \/ CallSetBpm
    \/ CallPlayNote
    \/ CallCleanupAudio
    \/ ClockLoop
    \/ InitAudioDone

SpecEngine == Init /\ [][NextEngine]_vars

\* the endpoint and its client, sent one program
NextCompile ==
    \/ PostParse
    \/ ParseEndpoint
    \/ ParsePatternSettles
    \/ FetchFails

SpecCompile == Init /\ [][NextCompile]_vars

(***************************************************************************)
(* Transport: play, pause, stop                                            *)
(***************************************************************************)
\* C1: handlePlay from a paused transport resumes at the position frozen by
\* the pause, and from a stopped transport starts at position 0; either way
\* the transport is started.
C1_PlayResumesAtPausePosition ==
    (last.op = "handlePlay" /\ last.from \in {"stopped", "paused"}) =>
        /\ engine.transport.state = "started"
        /\ engine.transport.ticks =
              IF last.from = "paused" THEN last.ticks ELSE 0

\* C2: handlePause on a started transport pauses it at its position; while
\* the transport stays paused no step moves the transport position or the
\* store's currentTime, and no clock callback triggers or reports an event.
C2_PauseFreezes ==
    [][ /\ (last'.op = "handlePause" /\ engine.transport.state = "started") =>
              /\ engine'.transport.state = "paused"
              /\ engine'.transport.ticks = engine.transport.ticks
        /\ (engine.transport.state = "paused" /\ engine'.transport.state = "paused") =>
              /\ engine'.transport.ticks = engine.transport.ticks
              /\ store'.currentTime = store.currentTime
              /\ IF last'.op = "clock"
                 THEN emitted' = << >> /\ reported' = << >>
                 ELSE emitted' = emitted /\ reported' = reported ]_vars

\* a clock callback that found the transport paused in mid-pattern, right
\* after the pause
C2_Witness ==
    /\ last.op = "clock"
    /\ last.prev = "handlePause"
    /\ engine.transport.state = "paused"
    /\ engine.transport.ticks > 0
    /\ engine.timeline # << >>
    /\ initPc = "done"

\* C3: handleStop, from a stopped, started or paused transport, leaves the
\* transport stopped at position 0 and the store's currentTime at 0.
C3_StopResets ==
    last.op = "handleStop" =>
        /\ engine.transport.state = "stopped"
        /\ engine.transport.ticks = 0
        /\ store.currentTime = Num(0)
        /\ ~store.isPlaying

\* a stop that found the transport paused away from position 0
C3_Witness ==
    /\ last.op = "handleStop"
    /\ last.from = "paused"
    /\ last.ticks > 0
    /\ last.prev = "handlePause"
    /\ engine.transport.state = "stopped"

(***************************************************************************)
(* Documents, windows and the loop                                         *)
(***************************************************************************)
\* C4: after a pattern is loaded while another one plays, every event that a
\* clock callback triggers is an event of the loaded document (the store's
\* parsedPattern), and the load resets neither the transport state nor its
\* position.
C4_LoadSwapsPlayingDocument ==
    /\ (last.op = "clock" /\ last.from = "started" /\ store.parsedPattern # NULL) =>
          \A i \in DOMAIN emitted :
             \E k \in DOMAIN store.parsedPattern.patterns :
                \E j \in DOMAIN store.parsedPattern.patterns[k].notes :
                   LET n == store.parsedPattern.patterns[k].notes[j]
                   IN  n.instrument = emitted[i].instrument /\ n.note = emitted[i].note
    /\ last.op = "load" =>
          engine.transport.state = last.from /\ engine.transport.ticks = last.ticks

\* C5: a clock callback of a started transport that moves the position from
\* p to q triggers each event of the playing document whose time lies in
\* [p, q) exactly once, or in [p, 16 beats) and [0, q) when the position
\* wrapped, and no other event (events whose instrument has a sampler).
C5_WindowFiresOnce ==
    (last.op = "clock" /\ last.from = "started" /\ ~last.threw
                       /\ engine.currentPattern # NULL) =>
        LET p == last.ticks
            q == engine.transport.ticks
            InWindow(t) == IF p < q THEN p <= t /\ t < q
                           ELSE (p <= t /\ t < engine.transport.loopEnd) \/ t < q
            doc == engine.currentPattern.patterns
            places == UNION { { <<k, j>> : j \in DOMAIN doc[k].notes } :
                              k \in DOMAIN doc }
            Expected(i, n) ==
                Cardinality({ x \in places :
                                /\ doc[x[1]].notes[x[2]].instrument = i
                                /\ doc[x[1]].notes[x[2]].note = n
                                /\ InWindow(doc[x[1]].notes[x[2]].time) })
            Got(i, n) ==
                Cardinality({ x \in DOMAIN emitted :
                                emitted[x].instrument = i /\ emitted[x].note = n })
        IN  \A k \in DOMAIN doc : \A j \in DOMAIN doc[k].notes :
               LET e == doc[k].notes[j]
               IN  Lookup(engine.instruments, e.instrument) = "Sampler" =>
                      Got(e.instrument, e.note) = Expected(e.instrument, e.note)

\* C6 as stated: the loop length is the largest time + duration of the
\* playing document's events, 16 beats only for a document without events,
\* and a started transport's position stays below it.
C6_LoopLengthFromDocument ==
    (engine.transport.state = "started" /\ engine.currentPattern # NULL) =>
        LET doc  == engine.currentPattern.patterns
            ends == UNION { { doc[k].notes[j].time + doc[k].notes[j].duration :
                                j \in DOMAIN doc[k].notes } : k \in DOMAIN doc }
            L    == IF ends = {} THEN 2 * TransportLoopEndBeats
                    ELSE CHOOSE m \in ends : \A x \in ends : x <= m
        IN  0 <= engine.transport.ticks /\ engine.transport.ticks < L

\* C6: the loop length is the fixed 16 beats that initAudio sets, whatever
\* the document; once the transport loops, every clock callback of a started
\* transport leaves the position p with 0 <= p < 16 beats.
C6_LoopLengthFixed ==
    /\ engine.transport.loopEnd = 2 * TransportLoopEndBeats
    /\ (last.op = "clock" /\ last.from = "started" /\ engine.transport.loop) =>
          /\ 0 <= engine.transport.ticks
          /\ engine.transport.ticks < 2 * TransportLoopEndBeats

\* a callback that wrapped the position of a transport playing the default
\* pattern, whose last event ends at 1.5 beats
C6_Witness ==
    /\ last.op = "clock"
    /\ last.from = "started"
    /\ engine.transport.loop
    /\ engine.currentPattern = DocDefault
    /\ engine.transport.ticks < last.ticks

C9_MissingInstrumentIsPerEvent ==
    (last.op = "clock" /\ last.from = "started") =>
        LET t   == [engine.transport EXCEPT !.ticks = last.ticks]
            due == DueOver(engine.timeline, ClockPositions(t))
        IN  /\ engine.transport.state = "started"
            /\ \A i \in DOMAIN due :
                  LET name == due[i].value.instrument
                  IN  IF name \notin InstrumentNames
                      THEN /\ \E r \in DOMAIN reported : reported[r] = name
                           /\ \A x \in DOMAIN emitted : emitted[x].instrument # name
                      ELSE engine.instruments[name] = "Sampler" =>
                              \E x \in DOMAIN emitted :
                                 /\ emitted[x].instrument = name
                                 /\ emitted[x].note = due[i].value.note
                                 /\ emitted[x].tick = due[i].tick

\* C10: handleStop leaves the transport stopped; a stopped transport leaves
\* that state only by handlePlay; and no step taken from a stopped transport
\* triggers or reports an event: a clock callback finds nothing to do and
\* every other step leaves the triggered events as they were.
C10_NoEventAfterStop ==
    [][ /\ last'.op = "handleStop" => engine'.transport.state = "stopped"
        /\ (engine.transport.state = "stopped" /\ engine'.transport.state # "stopped")
              => last'.op = "handlePlay"
        /\ engine.transport.state = "stopped" =>
              IF last'.op = "clock"
              THEN emitted' = << >> /\ reported' = << >>
              ELSE emitted' = emitted /\ reported' = reported ]_vars

\* the clock callback that was due when a playing pattern was stopped
C10_Witness ==
    /\ last.op = "clock"
    /\ last.prev = "handleStop"
    /\ last.from = "stopped"
    /\ store.parsedPattern # NULL
    /\ initPc = "done"
    /\ emitted = << >>

(***************************************************************************)
(* The transport state machine                                             *)
(***************************************************************************)
\* C11: the transport state is always stopped, started or paused, and every
\* step that changes it is stopped -> started or paused -> started by
\* handlePlay, started -> paused by handlePause, or started/paused ->
\* stopped by handleStop; no handler called in any state, hence no sequence
\* of button presses, takes a stopped transport to paused.
C11_StateMachine ==
    [][ /\ engine'.transport.state \in {"stopped", "started", "paused"}
        /\ engine'.transport.state # engine.transport.state =>
              \/ /\ engine.transport.state \in {"stopped", "paused"}
                 /\ engine'.transport.state = "started"
                 /\ last'.op = "handlePlay"
              \/ /\ engine.transport.state = "started"
                 /\ engine'.transport.state = "paused"
                 /\ last'.op = "handlePause"
              \/ /\ engine'.transport.state = "stopped"
                 /\ last'.op = "handleStop" ]_vars

\* handlePause called on a stopped transport that has a pattern loaded: the
\* transport is still stopped
C11_Witness ==
    /\ last.op = "handlePause"
    /\ last.from = "stopped"
    /\ last.prev = "load"
    /\ engine.transport.state = "stopped"
    /\ store.parsedPattern # NULL

(***************************************************************************)
(* Documents and the clock callback                                        *)
(***************************************************************************)
\* C12: every event that one clock callback triggers is an event of one
\* document, the engine's currentPattern, also when another document was
\* loaded in between; the parts on the transport timeline are exactly the
\* parts built from that document, so no callback mixes two documents.
C12_TickFromOneDocument ==
    /\ engine.timeline = engine.patternParts
    /\ (last.op = "clock" /\ emitted # << >>) =>
          /\ engine.currentPattern # NULL
          /\ \A i \in DOMAIN emitted :
                \E k \in DOMAIN engine.currentPattern.patterns :
                   \E j \in DOMAIN engine.currentPattern.patterns[k].notes :
                      emitted[i] =
                         Trigger(engine.currentPattern.patterns[k].notes[j],
                                 emitted[i].tick)

\* a clock callback that triggered events right after another document was
\* loaded into the store
C12_Witness ==
    /\ last.op = "clock"
    /\ last.prev = "load"
    /\ emitted # << >>
    /\ store.parsedPattern # NULL
    /\ engine.currentPattern # NULL
    /\ store.parsedPattern # engine.currentPattern

\* C13: when one clock callback triggers, at the same tick, two events of
\* one track that have the same time, the event stored earlier in the track
\* is triggered first.
C13_SameTimeInStoredOrder ==
    (last.op = "clock" /\ engine.currentPattern # NULL) =>
        \A k \in DOMAIN engine.currentPattern.patterns :
           LET notes == engine.currentPattern.patterns[k].notes
           IN  \A i, j \in DOMAIN notes :
                  (i < j /\ notes[i].time = notes[j].time) =>
                     \A x, y \in DOMAIN emitted :
                        ( /\ emitted[x].tick = emitted[y].tick
                          /\ emitted[x] = Trigger(notes[i], emitted[x].tick)
                          /\ emitted[y] = Trigger(notes[j], emitted[y].tick)
                          /\ emitted[x] # emitted[y] ) => x < y

\* a clock callback that triggered two events of one track at one tick
C13_Witness ==
    /\ last.op = "clock"
    /\ engine.currentPattern # NULL
    /\ \E k \in DOMAIN engine.currentPattern.patterns :
          LET notes == engine.currentPattern.patterns[k].notes
          IN  \E i, j \in DOMAIN notes :
                 /\ i < j
                 /\ notes[i].time = notes[j].time
                 /\ \E x, y \in DOMAIN emitted :
                       /\ x < y
                       /\ emitted[x] = Trigger(notes[i], emitted[x].tick)
                       /\ emitted[y] = Trigger(notes[j], emitted[x].tick)

\* C15: the documents the player holds are never altered: the store's
\* parsedPattern changes only by a load, to the loaded document; the
\* engine's currentPattern changes only to that very document (handlePlay)
\* or to null (handleStop); and after every operation the notes that the
\* scheduled parts carry are the notes of currentPattern, field by field.
C15_DocumentsUnchanged ==
    [][ /\ store'.parsedPattern # store.parsedPattern =>
              last'.op = "load" /\ store'.parsedPattern \in Docs
        /\ engine'.currentPattern # engine.currentPattern =>
              \/ last'.op = "handleStop" /\ engine'.currentPattern = NULL
              \/ /\ last'.op = "handlePlay"
                 /\ engine'.currentPattern = store.parsedPattern
                 /\ store'.parsedPattern = store.parsedPattern
        /\ engine'.currentPattern # NULL =>
              /\ Len(engine'.patternParts) = Len(engine'.currentPattern.patterns)
              /\ \A k \in DOMAIN engine'.patternParts :
                    LET part  == engine'.patternParts[k]
                        notes == engine'.currentPattern.patterns[k].notes
                    IN  /\ Len(part.events) = Len(notes)
                        /\ \A j \in DOMAIN notes :
                              part.events[j].value = notes[j] ]_vars

\* a clock callback that triggered events of a document at a changed tempo
C15_Witness ==
    /\ last.op = "clock"
    /\ last.from = "started"
    /\ emitted # << >>
    /\ engine.currentPattern = DocOdd
    /\ engine.transport.bpm # InitialBpm

(***************************************************************************)
(* The /api/parse endpoint                                                 *)
(***************************************************************************)
\* C16: the endpoint answers a program that has two blocks of one block
\* type with success = false, an error and no document.
C16_DuplicateBlockRejected ==
    (backend.pc = "answered") =>
        \A i, j \in DOMAIN backend.request :
           ( /\ i < j
             /\ backend.request[i].rule = "pattern_block"
             /\ backend.request[j].rule = "pattern_block"
             /\ backend.request[i].block_type = backend.request[j].block_type ) =>
                /\ ~backend.response.success
                /\ backend.response.error # NULL
                /\ backend.response.pattern = NULL

\* C17: a program with a statement whose time literal is negative is
\* answered with success = false; every note of a successful answer has
\* time >= 0; and a program made of blocks only, every time literal
\* unsigned (0 included), is answered with success = true, each literal 0
\* giving a note at time 0.
C17_NegativeTimeRejected ==
    (backend.pc = "answered") =>
        LET req  == backend.request
            resp == backend.response
        IN  /\ (\E i \in DOMAIN req :
                   /\ req[i].rule = "pattern_block"
                   /\ \E j \in DOMAIN req[i].statements :
                         req[i].statements[j].time.sign = "-") => ~resp.success
            /\ resp.success =>
                  \A k \in DOMAIN resp.pattern.patterns :
                     \A j \in DOMAIN resp.pattern.patterns[k].notes :
                        resp.pattern.patterns[k].notes[j].time >= 0
            /\ ( /\ req # << >>
                 /\ \A i \in DOMAIN req :
                       /\ req[i].rule = "pattern_block"
                       /\ \A j \in DOMAIN req[i].statements :
                             req[i].statements[j].time.sign = "" ) =>
                  /\ resp.success
                  /\ \A j \in DOMAIN req[Len(req)].statements :
                        req[Len(req)].statements[j].time = TimeLiteral("", 0, "") =>
                           \E k \in DOMAIN resp.pattern.patterns :
                              /\ resp.pattern.patterns[k].type = req[Len(req)].block_type
                              /\ resp.pattern.patterns[k].notes[j].time = 0

\* a rejected program whose only flaw is the sign of one time, after a
\* statement at time 0
C17_Witness ==
    /\ backend.pc = "answered"
    /\ backend.request =
          << BlockItem("melody",
                       << Statement("piano", "C4", TimeLiteral("", 0, "")),
                          Statement("piano", "C4", TimeLiteral("-", 1, "")) >>) >>
    /\ ~backend.response.success

C19_DefaultVelocityDuration ==
    (backend.pc = "answered" /\ backend.response.success) =>
        \A k \in DOMAIN backend.response.pattern.patterns :
           \A j \in DOMAIN backend.response.pattern.patterns[k].notes :
              /\ backend.response.pattern.patterns[k].notes[j].velocity = 10
              /\ backend.response.pattern.patterns[k].notes[j].duration = 1

\* the successful answer to the editor's default program: two tracks of
\* three notes
C19_Witness ==
    /\ backend.pc = "answered"
    /\ backend.request = DefaultProgram
    /\ backend.response.success
    /\ backend.response.pattern.patterns = DocDefault.patterns

\* C20 as stated: a program without blocks, the empty one or imports only,
\* is answered with success = true and a document without tracks.
C20_NoBlocksCompiles ==
    ( /\ backend.pc = "answered"
      /\ \A i \in DOMAIN backend.request :
            backend.request[i].rule = "import_statement" ) =>
        /\ backend.response.success
        /\ backend.response.pattern.patterns = << >>

\* C20: a program without blocks, the empty one or imports only, is
\* answered with success = false, no document and the parser's error; every
\* document of a successful answer has at least one track.
C20_NoBlocksRejected ==
    (backend.pc = "answered") =>
        /\ (\A i \in DOMAIN backend.request :
               backend.request[i].rule = "import_statement") =>
              /\ ~backend.response.success
              /\ backend.response.pattern = NULL
              /\ backend.response.error = Err("UnexpectedEOF")
        /\ backend.response.success =>
              backend.response.pattern.patterns # << >>

\* the answer to a program of import statements only
C20_Witness ==
    /\ backend.pc = "answered"
    /\ backend.request # << >>
    /\ \A i \in DOMAIN backend.request :
          backend.request[i].rule = "import_statement"
    /\ ~backend.response.success

C23_TracksAreTheStatements ==
    (backend.pc = "answered" /\ backend.response.success) =>
        LET req    == backend.request
            blocks == AfterImports(req)
            tracks == backend.response.pattern.patterns
        IN  (\A a, b \in DOMAIN blocks :
                a # b => blocks[a].block_type # blocks[b].block_type) =>
               /\ Len(tracks) = Len(blocks)
               /\ \A k \in DOMAIN blocks :
                     /\ tracks[k].type = blocks[k].block_type
                     /\ Len(tracks[k].notes) = Len(blocks[k].statements)
                     /\ \A j \in DOMAIN blocks[k].statements :
                           /\ tracks[k].notes[j].instrument
                                 = blocks[k].statements[j].instrument
                           /\ tracks[k].notes[j].note = blocks[k].statements[j].note
                           /\ tracks[k].notes[j].time
                                 = Float(blocks[k].statements[j].time)

\* the document of the chord program: E4 before C4, both at time 0
C23_Witness ==
    /\ backend.pc = "answered"
    /\ backend.request = ChordProgram
    /\ backend.response.success
    /\ Len(backend.response.pattern.patterns[1].notes) = Len(ChordProgram[1].statements)
    /\ backend.response.pattern.patterns[1].notes[1].note = "E4"
    /\ backend.response.pattern.patterns[1].notes[2].note = "C4"
    /\ backend.response.pattern.patterns[1].notes[1].time
          = backend.response.pattern.patterns[1].notes[2].time

(***************************************************************************)
(* The store and the transport                                             *)
(***************************************************************************)
\* C24: the store's currentTime is always a number between 0 and 16 beats
\* (held in tenths of a beat).
C24_CurrentTimeInRange ==
    /\ store.currentTime.kind = "number"
    /\ 0 <= store.currentTime.value
    /\ store.currentTime.value <= 10 * TransportLoopEndBeats

C28_StoreTracksTransport ==
    (last.op = "interval" /\ engine.transport.state = "started") =>
        store.currentTime = Num(5 * engine.transport.ticks)

\* C29: a failed parse leaves the store's parsedPattern as it was and sets
\* the editor's error; a parse that settles, either way, ends with
\* isLoading false; a parse is started only when none is in flight, so at
\* most one is in flight, and isLoading is true exactly while one is.
C29_FailedParseKeepsPattern ==
    [][ /\ last'.op = "parseError" =>
              /\ store' = store
              /\ editor'.error # NULL
              /\ ~editor'.isLoading
        /\ last'.op = "load" => ~editor'.isLoading
        /\ last'.op = "parseClick" => editor.inflight = 0 /\ editor'.isLoading
        /\ editor'.inflight <= 1
        /\ editor'.isLoading <=> editor'.inflight = 1 ]_vars

\* a parse that failed while an earlier pattern was playing
C29_Witness ==
    /\ last.op = "parseError"
    /\ last.from = "started"
    /\ store.parsedPattern # NULL
    /\ editor.error # NULL
    /\ ~editor.isLoading

(***************************************************************************)
(* The engine called directly                                              *)
(***************************************************************************)
\* C26: in every state of the engine the timeline holds exactly the parts
\* in patternParts; without a current pattern there is no part; with one
\* there is one part per track, of the track's type and with one event per
\* note; stopPattern and cleanupAudio leave no pattern and no part, and
\* playPattern leaves a current pattern, whatever was playing before.
C26_PartsMatchPattern ==
    /\ engine.timeline = engine.patternParts
    /\ engine.currentPattern = NULL => engine.patternParts = << >>
    /\ engine.currentPattern # NULL =>
          /\ Len(engine.patternParts) = Len(engine.currentPattern.patterns)
          /\ \A k \in DOMAIN engine.patternParts :
                /\ engine.patternParts[k].type
                      = engine.currentPattern.patterns[k].type
                /\ Len(engine.patternParts[k].events)
                      = Len(engine.currentPattern.patterns[k].notes)
    /\ last.op \in {"stopPattern", "cleanupAudio"} =>
          engine.currentPattern = NULL /\ engine.patternParts = << >>
    /\ last.op = "playPattern" => engine.currentPattern # NULL

\* playPattern of the two-track default pattern, called while a pattern was
\* playing in mid-loop
C26_Witness ==
    /\ last.op = "playPattern"
    /\ last.from = "started"
    /\ last.ticks > 0
    /\ engine.currentPattern = DocDefault
    /\ Len(engine.timeline) = Len(DocDefault.patterns)

\* C27: every trigger of a clock callback carries the velocity and the
\* duration of a note of the playing pattern with its instrument and note,
\* 0 included.
C27_TriggerCarriesFields ==
    (last.op = "clock" /\ engine.currentPattern # NULL) =>
        \A i \in DOMAIN emitted :
           \E k \in DOMAIN engine.currentPattern.patterns :
              \E j \in DOMAIN engine.currentPattern.patterns[k].notes :
                 LET n == engine.currentPattern.patterns[k].notes[j]
                 IN  /\ n.instrument = emitted[i].instrument
                     /\ n.note = emitted[i].note
                     /\ n.velocity = emitted[i].velocity
                     /\ n.duration = emitted[i].duration

\* C30: no clock callback and no playNote call throws, and each triggers
\* sounds only on instruments whose slot holds a sampler; after
\* cleanupAudio every instrument slot and every EQ slot is null.
C30_MissingInstrumentIsSafe ==
    /\ last.op \in {"clock", "playNote"} =>
          /\ ~last.threw
          /\ \A i \in DOMAIN emitted :
                /\ emitted[i].instrument \in InstrumentNames
                /\ engine.instruments[emitted[i].instrument] = "Sampler"
    /\ last.op = "cleanupAudio" =>
          /\ \A n \in InstrumentNames : engine.instruments[n] = "null"
          /\ \A b \in EqBands : engine.eq[b] = "null"

====
